---- MODULE Spec2Model ----
(***************************************************************************)
(* World coordination of the Rubinius VM (vm/shared_state.cpp).            *)
(*                                                                         *)
(* WorldState is one mutex, two condition variables, the counter           *)
(* pending_threads_ and the flag should_stop_.  Each managed thread is a   *)
(* process whose position inside the WorldState operations is pc[t].       *)
(* A critical section is entered by a step that takes the mutex; every     *)
(* later step of the section is taken by the mutex holder; a               *)
(* Condition::wait releases the mutex and puts the thread in the wait set  *)
(* of the condition variable; a woken thread must take the mutex again.    *)
(* The read of should_stop_ in checkpoint() is made without the mutex and  *)
(* is a step of its own, so that whatever the thread does next may be      *)
(* based on a value that is already out of date.                           *)
(*                                                                         *)
(* mode[t] is the caller's side of the contract: a thread calls            *)
(* checkpoint, become_independent and stop_the_world only while dependent, *)
(* become_dependent only while independent, restart_world only while it    *)
(* holds the stop episode ("stopper").                                     *)
(***************************************************************************)
EXTENDS Integers, FiniteSets, Sequences, TLC

\* Number of managed threads.
NumThreads == 2

\* Largest value of time_waiting_ the model follows, and the largest
\* duration one timer::Running adds.
MaxTimeWaiting == 1

MaxElapsed == 1

Threads == 1..NumThreads

\* Number of addresses operator new has for a VM, and of managed threads
\* that are not VMs.
MaxVMs == 3

MaxOthers == 1

\* Objects that can be in threads_: VMs and other managed threads.
VMs == 1..MaxVMs

Others == (MaxVMs + 1)..(MaxVMs + MaxOthers)

\* root_vm_(0): the null pointer.
NoVM == 0

\* "no thread": the mutex is free.
NoThread == 0

VARIABLES
  pending_threads,   \* WorldState::pending_threads_
  should_stop,       \* WorldState::should_stop_
  time_waiting,      \* WorldState::time_waiting_
  mutex,             \* holder of WorldState::mutex_, or NoThread
  waiting_to_stop,   \* threads blocked in waiting_to_stop_.wait
  waiting_to_run,    \* threads blocked in waiting_to_run_.wait
  pc,                \* position of each thread
  mode,              \* what the caller is: "independent", "dependent", "stopper"
  caller,            \* the operation that called wait_to_run
  waited,            \* the thread's wait_til_alone waited on waiting_to_stop_
  snap,              \* << pending count less the others' share >> at the call
  timer_thread_started,  \* SharedState::timer_thread_started_
  timer_threads,     \* position of each thread made by pthread_create
  enable_preempt,    \* interrupts.enable_preempt
  timer_set,         \* the interrupt flag raised by Interrupts::set_timer
  ep,                \* position of each thread inside enable_preemption
  exited,            \* the process has ended in exit(1) or abort()
  jit_inline_debug,  \* config.jit_inline_debug
  threads,           \* SharedState::threads_
  cf_locations,      \* SharedState::cf_locations_
  refcount,          \* the facade's reference count (ref() / deref())
  root_vm,           \* SharedState::root_vm_, NoVM when null
  deleted,           \* the facade has been destroyed by discard()
  last_new           \* << the registry before the latest new_vm, its VM >>

vars == << pending_threads, should_stop, time_waiting, mutex, waiting_to_stop,
           waiting_to_run, pc, mode, caller, waited, snap,
           timer_thread_started, timer_threads, enable_preempt, timer_set, ep,
           exited, jit_inline_debug,
           threads, cf_locations, refcount, root_vm, deleted, last_new >>

\* The registry of managed threads and the lifetime of the facade.
registry == << threads, cf_locations, refcount, root_vm, deleted, last_new >>

\* The state of the facade outside WorldState.
preemption == << timer_thread_started, timer_threads, enable_preempt,
                 timer_set, ep, exited >>

facade == << preemption, jit_inline_debug, registry >>

world == << pending_threads, should_stop, time_waiting >>

condvars == << waiting_to_stop, waiting_to_run >>

ghosts == << waited, snap >>

Modes == {"independent", "dependent", "stopper"}

PcValues ==
  { "idle", "cp_ret", "cp_lock",
    "wtr_dec", "wtr_loop", "wtr_wait", "wtr_inc",
    "bi_lock", "bi_check", "bi_dec",
    "bd_lock", "bd_loop", "bd_wait", "bd_inc",
    "wta_lock", "wta_set", "wta_loop", "wta_wait",
    "waw_lock", "waw_body" }

TypeOK ==
  /\ pending_threads \in Int
  /\ should_stop \in BOOLEAN
  /\ time_waiting \in 0..MaxTimeWaiting
  /\ mutex \in Threads \cup {NoThread}
  /\ waiting_to_stop \subseteq Threads
  /\ waiting_to_run \subseteq Threads
  /\ pc \in [Threads -> PcValues]
  /\ mode \in [Threads -> Modes]
  /\ caller \in [Threads -> {"none", "checkpoint", "become_independent"}]
  /\ waited \in [Threads -> BOOLEAN]
  /\ snap \in [Threads -> Seq(Int)]
  /\ timer_thread_started \in BOOLEAN
  /\ timer_threads \in Seq({"mask", "sleep", "poll"})
  /\ enable_preempt \in BOOLEAN
  /\ timer_set \in BOOLEAN
  /\ ep \in [Threads -> {"idle", "ep_set", "ep_create", "ep_enable"}]
  /\ exited \in BOOLEAN
  /\ jit_inline_debug \in {"yes", "no"}
  /\ threads \in Seq(VMs \cup Others)
  /\ cf_locations \in Seq(Int)
  /\ refcount \in Int
  /\ root_vm \in VMs \cup {NoVM}
  /\ deleted \in BOOLEAN
  /\ Len(last_new) \in {0, 1}

\* reinit(): pending_threads_ = 1.
ReinitPending == 1

\* WorldState::WorldState(): pending_threads_(0).
InitialPending == 0

\* SharedState::SharedState(): ref() on a count that starts at 0.
InitialRefs == 1

\* WorldState::WorldState() and SharedState::SharedState(): no thread is
\* counted yet, nothing is requested, no timer thread is started; the
\* configuration is whatever was parsed.
Init ==
  /\ pending_threads = InitialPending
  /\ should_stop = FALSE
  /\ time_waiting = 0
  /\ mutex = NoThread
  /\ waiting_to_stop = {}
  /\ waiting_to_run = {}
  /\ pc = [t \in Threads |-> "idle"]
  /\ mode = [t \in Threads |-> "independent"]
  /\ caller = [t \in Threads |-> "none"]
  /\ waited = [t \in Threads |-> FALSE]
  /\ snap = [t \in Threads |-> << >>]
  /\ timer_thread_started = FALSE
  /\ timer_threads = << >>
  /\ enable_preempt = FALSE
  /\ timer_set = FALSE
  /\ ep = [t \in Threads |-> "idle"]
  /\ exited = FALSE
  /\ jit_inline_debug \in {"yes", "no"}
  /\ threads = << >>
  /\ cf_locations = << >>
  /\ refcount = InitialRefs
  /\ root_vm = NoVM
  /\ deleted = FALSE
  /\ last_new = << >>

----------------------------------------------------------------------------
\* thread::Mutex::LockGuard guard(mutex_): taken when free.
LockGuard(t) ==
  /\ mutex = NoThread
  /\ mutex' = t

\* The guard goes out of scope.
Unlock(t) ==
  /\ mutex = t
  /\ mutex' = NoThread

\* Condition::wait(mutex_): release the mutex and join the wait set.
CondWait(cv, t) == cv \cup {t}

\* A signal that wakes nobody.
SignalLost(cv) == {cv}

\* Condition::signal(): wakes one waiter, if there is one.
SignalOutcomes(cv) ==
  IF cv = {} THEN {cv} ELSE { cv \ {w} : w \in cv }

\* A broadcast that wakes nobody.
BroadcastLost(cv) == cv

\* Condition::broadcast(): wakes every waiter.
Broadcast(cv) == {}

\* A thread of t's whose ++/-- on pending_threads_ currently sum to +1.
Counted(t) ==
  /\ mode[t] = "dependent"
  /\ pc[t] \notin {"wtr_loop", "wtr_wait", "wtr_inc", "wta_loop", "wta_wait"}

OthersCounted(t) == Cardinality({ u \in Threads \ {t} : Counted(u) })

\* A thread is inside wait_til_alone .. wake_all_waiters.
Stopping(t) ==
  \/ pc[t] \in {"wta_lock", "wta_set", "wta_loop", "wta_wait",
                "waw_lock", "waw_body"}
  \/ mode[t] = "stopper"

----------------------------------------------------------------------------
\* checkpoint(): "Test should_stop_ without the lock".  The value read
\* decides whether the thread goes for the mutex or returns.
Checkpoint(t) ==
  /\ pc[t] = "idle"
  /\ mode[t] = "dependent"
  /\ pc' = [pc EXCEPT ![t] = IF should_stop THEN "cp_lock" ELSE "cp_ret"]
  /\ snap' = [snap EXCEPT ![t] = << pending_threads - OthersCounted(t) >>]
  /\ UNCHANGED << facade, world, mutex, condvars, mode, caller, waited >>

\* checkpoint() read false: it returns, whatever should_stop_ is by now.
CheckpointReturn(t) ==
  /\ pc[t] = "cp_ret"
  /\ pc' = [pc EXCEPT ![t] = "idle"]
  /\ UNCHANGED << facade, world, mutex, condvars, mode, caller, ghosts >>

\* checkpoint() read true: take the mutex and call wait_to_run().
CheckpointLock(t) ==
  /\ pc[t] = "cp_lock"
  /\ LockGuard(t)
  /\ pc' = [pc EXCEPT ![t] = "wtr_dec"]
  /\ caller' = [caller EXCEPT ![t] = "checkpoint"]
  /\ UNCHANGED << facade, world, condvars, mode, ghosts >>

----------------------------------------------------------------------------
\* wait_to_run(): pending_threads_--; waiting_to_stop_.signal().
WaitToRunSignal(t) ==
  /\ pc[t] = "wtr_dec"
  /\ mutex = t
  /\ pending_threads' = pending_threads - 1
  /\ waiting_to_stop' \in SignalOutcomes(waiting_to_stop)
  /\ pc' = [pc EXCEPT ![t] = "wtr_loop"]
  /\ UNCHANGED << facade, should_stop, time_waiting, mutex, waiting_to_run, mode,
                  caller, ghosts >>

\* A parked thread that does not look at should_stop_.
WaitToRunNeverWaits == FALSE

\* The condition of wait_to_run()'s loop.
WaitToRunMustWait == should_stop

\* wait_to_run(): while(should_stop_) waiting_to_run_.wait(mutex_).
WaitToRunLoop(t) ==
  /\ pc[t] = "wtr_loop"
  /\ mutex = t
  /\ IF WaitToRunMustWait
       THEN /\ waiting_to_run' = CondWait(waiting_to_run, t)
            /\ Unlock(t)
            /\ pc' = [pc EXCEPT ![t] = "wtr_wait"]
       ELSE /\ pc' = [pc EXCEPT ![t] = "wtr_inc"]
            /\ UNCHANGED << waiting_to_run, mutex >>
  /\ UNCHANGED << facade, world, waiting_to_stop, mode, caller, ghosts >>

\* Woken in waiting_to_run_.wait: take the mutex again, test again.
WaitToRunWake(t) ==
  /\ pc[t] = "wtr_wait"
  /\ t \notin waiting_to_run
  /\ LockGuard(t)
  /\ pc' = [pc EXCEPT ![t] = "wtr_loop"]
  /\ UNCHANGED << facade, world, condvars, mode, caller, ghosts >>

\* wait_to_run() without its increment.
WaitToRunNoRejoin(p) == p

\* The count after wait_to_run()'s pending_threads_++.
WaitToRunRejoin(p) == p + 1

\* wait_to_run(): pending_threads_++, then back to the caller: checkpoint()
\* returns (its guard unlocks), become_independent() goes on to its decrement.
WaitToRunReturn(t) ==
  /\ pc[t] = "wtr_inc"
  /\ mutex = t
  /\ pending_threads' = WaitToRunRejoin(pending_threads)
  /\ IF caller[t] = "checkpoint"
       THEN /\ Unlock(t)
            /\ pc' = [pc EXCEPT ![t] = "idle"]
       ELSE /\ pc' = [pc EXCEPT ![t] = "bi_dec"]
            /\ UNCHANGED mutex
  /\ caller' = [caller EXCEPT ![t] = "none"]
  /\ UNCHANGED << facade, should_stop, time_waiting, condvars, mode, ghosts >>

----------------------------------------------------------------------------
\* become_independent() is called by a dependent thread.
BecomeIndependentCall(t) ==
  /\ pc[t] = "idle"
  /\ mode[t] = "dependent"
  /\ pc' = [pc EXCEPT ![t] = "bi_lock"]
  /\ snap' = [snap EXCEPT ![t] = << pending_threads - OthersCounted(t) >>]
  /\ UNCHANGED << facade, world, mutex, condvars, mode, caller, waited >>

BecomeIndependentLock(t) ==
  /\ pc[t] = "bi_lock"
  /\ LockGuard(t)
  /\ pc' = [pc EXCEPT ![t] = "bi_check"]
  /\ UNCHANGED << facade, world, condvars, mode, caller, ghosts >>

\* become_independent() that leaves without taking part in the stop.
BecomeIndependentNeverParks == FALSE

\* become_independent() that always goes through wait_to_run().
BecomeIndependentAlwaysParks == TRUE

\* "If someone is waiting on us to stop, stop now."
BecomeIndependentMustPark == should_stop

\* if(should_stop_) wait_to_run();
BecomeIndependentCheck(t) ==
  /\ pc[t] = "bi_check"
  /\ mutex = t
  /\ IF BecomeIndependentMustPark
       THEN /\ pc' = [pc EXCEPT ![t] = "wtr_dec"]
            /\ caller' = [caller EXCEPT ![t] = "become_independent"]
       ELSE /\ pc' = [pc EXCEPT ![t] = "bi_dec"]
            /\ UNCHANGED caller
  /\ UNCHANGED << facade, world, mutex, condvars, mode, ghosts >>

\* pending_threads_--; the guard unlocks; the thread is independent.
BecomeIndependentReturn(t) ==
  /\ pc[t] = "bi_dec"
  /\ Unlock(t)
  /\ pending_threads' = pending_threads - 1
  /\ pc' = [pc EXCEPT ![t] = "idle"]
  /\ mode' = [mode EXCEPT ![t] = "independent"]
  /\ UNCHANGED << facade, should_stop, time_waiting, condvars, caller, ghosts >>

----------------------------------------------------------------------------
\* become_dependent() is called by an independent thread.
BecomeDependentCall(t) ==
  /\ pc[t] = "idle"
  /\ mode[t] = "independent"
  /\ pc' = [pc EXCEPT ![t] = "bd_lock"]
  /\ UNCHANGED << facade, world, mutex, condvars, mode, caller, ghosts >>

BecomeDependentLock(t) ==
  /\ pc[t] = "bd_lock"
  /\ LockGuard(t)
  /\ pc' = [pc EXCEPT ![t] = "bd_loop"]
  /\ UNCHANGED << facade, world, condvars, mode, caller, ghosts >>

\* become_dependent() that does not look at should_stop_.
BecomeDependentNeverWaits == FALSE

\* The condition of become_dependent()'s loop.
BecomeDependentMustWait == should_stop

\* while(should_stop_) waiting_to_run_.wait(mutex_);
BecomeDependentLoop(t) ==
  /\ pc[t] = "bd_loop"
  /\ mutex = t
  /\ IF BecomeDependentMustWait
       THEN /\ waiting_to_run' = CondWait(waiting_to_run, t)
            /\ Unlock(t)
            /\ pc' = [pc EXCEPT ![t] = "bd_wait"]
       ELSE /\ pc' = [pc EXCEPT ![t] = "bd_inc"]
            /\ UNCHANGED << waiting_to_run, mutex >>
  /\ UNCHANGED << facade, world, waiting_to_stop, mode, caller, ghosts >>

BecomeDependentWake(t) ==
  /\ pc[t] = "bd_wait"
  /\ t \notin waiting_to_run
  /\ LockGuard(t)
  /\ pc' = [pc EXCEPT ![t] = "bd_loop"]
  /\ UNCHANGED << facade, world, condvars, mode, caller, ghosts >>

\* become_dependent() that counts the thread twice.
BecomeDependentCountTwice(p) == p + 2

\* The count after become_dependent()'s pending_threads_++.
BecomeDependentCount(p) == p + 1

\* pending_threads_++; the guard unlocks; the thread is dependent.
BecomeDependentReturn(t) ==
  /\ pc[t] = "bd_inc"
  /\ Unlock(t)
  /\ pending_threads' = BecomeDependentCount(pending_threads)
  /\ pc' = [pc EXCEPT ![t] = "idle"]
  /\ mode' = [mode EXCEPT ![t] = "dependent"]
  /\ UNCHANGED << facade, should_stop, time_waiting, condvars, caller, ghosts >>

----------------------------------------------------------------------------
\* The callers of stop_the_world are not part of WorldState: a collection is
\* started by "the collector", one at a time, so no thread is between its
\* call of stop_the_world and its return from restart_world when another
\* calls stop_the_world.  WorldState itself does not enforce this.
OneCollector == \A u \in Threads : ~Stopping(u)

\* SharedState::stop_the_world(): called by a dependent thread, the
\* collector.
WaitTilAloneCall(t) ==
  /\ pc[t] = "idle"
  /\ mode[t] = "dependent"
  /\ OneCollector
  /\ pc' = [pc EXCEPT ![t] = "wta_lock"]
  /\ snap' = [snap EXCEPT ![t] = << pending_threads - OthersCounted(t) >>]
  /\ waited' = [waited EXCEPT ![t] = FALSE]
  /\ UNCHANGED << facade, world, mutex, condvars, mode, caller >>

WaitTilAloneLock(t) ==
  /\ pc[t] = "wta_lock"
  /\ LockGuard(t)
  /\ pc' = [pc EXCEPT ![t] = "wta_set"]
  /\ UNCHANGED << facade, world, condvars, mode, caller, ghosts >>

\* wait_til_alone() that takes two off the count.
StopperExcuseTwice(p) == p - 2

\* The count after wait_til_alone()'s pending_threads_--, "For ourself..".
StopperExcuse(p) == p - 1

\* should_stop_ = true; pending_threads_--; the timer starts.
WaitTilAloneSet(t) ==
  /\ pc[t] = "wta_set"
  /\ mutex = t
  /\ should_stop' = TRUE
  /\ pending_threads' = StopperExcuse(pending_threads)
  /\ pc' = [pc EXCEPT ![t] = "wta_loop"]
  /\ UNCHANGED << facade, time_waiting, mutex, condvars, mode, caller, ghosts >>

\* A loop that lets one pending thread through.
StillPendingButOne(p) == p > 1

\* A loop that waits even when nobody is pending.
StillPendingOrNone(p) == p >= 0

\* timer::Running: the time between its construction and its destruction.
TimerElapsed == 0..MaxElapsed

\* A timer that takes the time spent off the total.
TimerSubtracts(total, d) == total - d

\* timer::Running<uint64_t> timer(time_waiting_): adds the time spent.
TimerAdds(total, d) == total + d

\* The condition of wait_til_alone()'s loop.
StillPending(p) == p > 0

\* while(pending_threads_ > 0) waiting_to_stop_.wait(mutex_); at the exit
\* the timer adds the time spent to time_waiting_ and the guard unlocks.
WaitTilAloneLoop(t) ==
  /\ pc[t] = "wta_loop"
  /\ mutex = t
  /\ IF StillPending(pending_threads)
       THEN /\ waiting_to_stop' = CondWait(waiting_to_stop, t)
            /\ Unlock(t)
            /\ pc' = [pc EXCEPT ![t] = "wta_wait"]
            /\ waited' = [waited EXCEPT ![t] = TRUE]
            /\ UNCHANGED << time_waiting, mode >>
       ELSE /\ \E d \in TimerElapsed :
                 /\ time_waiting + d <= MaxTimeWaiting
                 /\ time_waiting' = TimerAdds(time_waiting, d)
            /\ Unlock(t)
            /\ pc' = [pc EXCEPT ![t] = "idle"]
            /\ mode' = [mode EXCEPT ![t] = "stopper"]
            /\ UNCHANGED << waiting_to_stop, waited >>
  /\ UNCHANGED << facade, pending_threads, should_stop, waiting_to_run, caller, snap >>

WaitTilAloneWake(t) ==
  /\ pc[t] = "wta_wait"
  /\ t \notin waiting_to_stop
  /\ LockGuard(t)
  /\ pc' = [pc EXCEPT ![t] = "wta_loop"]
  /\ UNCHANGED << facade, world, condvars, mode, caller, ghosts >>

----------------------------------------------------------------------------
\* SharedState::restart_world(): called by the thread that stopped the world.
WakeAllWaitersCall(t) ==
  /\ pc[t] = "idle"
  /\ mode[t] = "stopper"
  /\ pc' = [pc EXCEPT ![t] = "waw_lock"]
  /\ UNCHANGED << facade, world, mutex, condvars, mode, caller, ghosts >>

WakeAllWaitersLock(t) ==
  /\ pc[t] = "waw_lock"
  /\ LockGuard(t)
  /\ pc' = [pc EXCEPT ![t] = "waw_body"]
  /\ UNCHANGED << facade, world, condvars, mode, caller, ghosts >>

\* wake_all_waiters() without its increment.
StopperNoRejoin(p) == p

\* The count after wake_all_waiters()'s pending_threads_++, "For ourself..".
StopperRejoin(p) == p + 1

\* should_stop_ = false; pending_threads_++; waiting_to_run_.broadcast().
WakeAllWaiters(t) ==
  /\ pc[t] = "waw_body"
  /\ Unlock(t)
  /\ should_stop' = FALSE
  /\ pending_threads' = StopperRejoin(pending_threads)
  /\ waiting_to_run' = Broadcast(waiting_to_run)
  /\ pc' = [pc EXCEPT ![t] = "idle"]
  /\ mode' = [mode EXCEPT ![t] = "dependent"]
  /\ UNCHANGED << facade, time_waiting, waiting_to_stop, caller, ghosts >>

----------------------------------------------------------------------------
\* pthread_cond_wait may return without a signal.
SpuriousWakeup(t) ==
  /\ t \in waiting_to_stop \cup waiting_to_run
  /\ waiting_to_stop' = waiting_to_stop \ {t}
  /\ waiting_to_run' = waiting_to_run \ {t}
  /\ UNCHANGED << facade, world, mutex, pc, mode, caller, ghosts >>

----------------------------------------------------------------------------
\* The steps of one thread that are not the start of an operation and do
\* not take the mutex.
Advance(t) ==
  \/ CheckpointReturn(t)
  \/ WaitToRunSignal(t)
  \/ WaitToRunLoop(t)
  \/ WaitToRunReturn(t)
  \/ BecomeIndependentCheck(t)
  \/ BecomeIndependentReturn(t)
  \/ BecomeDependentLoop(t)
  \/ BecomeDependentReturn(t)
  \/ WaitTilAloneSet(t)
  \/ WaitTilAloneLoop(t)
  \/ WakeAllWaiters(t)

\* The steps that take the mutex.
Acquire(t) ==
  \/ CheckpointLock(t)
  \/ WaitToRunWake(t)
  \/ BecomeIndependentLock(t)
  \/ BecomeDependentLock(t)
  \/ BecomeDependentWake(t)
  \/ WaitTilAloneLock(t)
  \/ WaitTilAloneWake(t)
  \/ WakeAllWaitersLock(t)

\* The calls.
Call(t) ==
  \/ Checkpoint(t)
  \/ BecomeIndependentCall(t)
  \/ BecomeDependentCall(t)
  \/ WaitTilAloneCall(t)
  \/ WakeAllWaitersCall(t)

Next ==
  \E t \in Threads :
    \/ Call(t)
    \/ Acquire(t)
    \/ Advance(t)
    \/ SpuriousWakeup(t)

Spec == Init /\ [][Next]_vars

----------------------------------------------------------------------------
\* Condition::init() after a fork: a pristine condition variable.
ReinitKeepsWaiters(cv) == cv

ReinitWaiters(cv) == {}

\* reinit(): should_stop_ = false.
ReinitShouldStop == FALSE

\* A reinit() that starts the accounting of waiting time again.
ReinitClearsTime(total) == 0

\* reinit() has no assignment to time_waiting_.
ReinitTimeWaiting(total) == total

\* SharedState::reinit() in the child of a fork() made by thread t from
\* managed code.  The child is a copy of the parent's memory, in whatever
\* state the world was, with t as its only thread: the other threads, with
\* whatever they held or waited for, are not there.
\*   config.jit_inline_debug.set("no"); world_->reinit():
\*   mutex_.init(); waiting_to_stop_.init(); waiting_to_run_.init();
\*   pending_threads_ = 1; should_stop_ = false.
Reinit(t) ==
  /\ pc[t] = "idle"
  /\ mode[t] = "dependent"
  /\ jit_inline_debug' = "no"
  /\ mutex' = NoThread
  /\ waiting_to_stop' = ReinitWaiters(waiting_to_stop)
  /\ waiting_to_run' = ReinitWaiters(waiting_to_run)
  /\ pending_threads' = ReinitPending
  /\ should_stop' = ReinitShouldStop
  /\ time_waiting' = ReinitTimeWaiting(time_waiting)
  /\ pc' = [u \in Threads |-> "idle"]
  /\ mode' = [u \in Threads |-> IF u = t THEN "dependent" ELSE "independent"]
  /\ caller' = [u \in Threads |-> "none"]
  /\ waited' = [u \in Threads |-> FALSE]
  /\ snap' = [u \in Threads |-> << >>]
  /\ UNCHANGED << preemption, registry >>

ForkNext ==
  \/ Next
  \/ \E t \in Threads : Reinit(t)

\* The runtime with fork(): any thread in managed code may fork, and the
\* child goes on from reinit().
ForkSpec == Init /\ [][ForkNext]_vars

----------------------------------------------------------------------------
\* The counter is the number of counted threads, in every state.
CountInv == pending_threads = Cardinality({ t \in Threads : Counted(t) })

----------------------------------------------------------------------------
\* Fair scheduling: a thread inside an operation goes on, a thread that
\* wants the mutex gets it if it is free again and again, and a dependent
\* thread outside any operation reaches a checkpoint or leaves managed code.
Fairness ==
  \A t \in Threads :
    /\ WF_vars(Advance(t))
    /\ SF_vars(Acquire(t))
    /\ WF_vars(Checkpoint(t) \/ BecomeIndependentCall(t))

FairSpec == Spec /\ Fairness

----------------------------------------------------------------------------
\* A thread that is not running managed code: independent (or still inside
\* become_dependent, before its increment), or parked inside wait_to_run.
Quiescent(u) ==
  \/ /\ mode[u] = "independent"
     /\ pc[u] \in {"idle", "bd_lock", "bd_loop", "bd_wait"}
  \/ /\ mode[u] = "dependent"
     /\ pc[u] \in {"wtr_loop", "wtr_wait"}

CheckpointFastReturns(t) == pc[t] = "cp_ret" /\ pc'[t] = "idle"

CheckpointParkedReturns(t) ==
  pc[t] = "wtr_inc" /\ caller[t] = "checkpoint" /\ pc'[t] = "idle"

C4_PendingNonNegative ==
  mutex = NoThread => pending_threads >= 0

\* The count at its lowest: the stopper and every thread it waited for have
\* taken themselves off.
C4_Witness ==
  /\ mutex = NoThread
  /\ pending_threads = 0
  /\ \E s \in Threads : mode[s] = "stopper" /\ waited[s]
  /\ \E u \in Threads : pc[u] = "wtr_wait"

\* The dependent state of the per-thread state machine: not parked, and not
\* the stopper between its decrement and its increment.
DependentState(t) ==
  /\ mode[t] = "dependent"
  /\ pc[t] \notin {"wtr_wait", "wta_wait"}

\* C5: when the mutex is free, pending_threads is the number of threads in
\* the dependent state.
C5_PendingIsDependents ==
  mutex = NoThread =>
    pending_threads = Cardinality({ t \in Threads : DependentState(t) })

\* The stopper waits, not counted, for one thread that is still counted and
\* on its way to park.
C5_Witness ==
  /\ mutex = NoThread
  /\ pending_threads = 1
  /\ \E s \in Threads : pc[s] = "wta_wait"
  /\ \E u \in Threads : pc[u] = "cp_lock"

InWaitTilAlone(t) == pc[t] \in {"wta_lock", "wta_set", "wta_loop", "wta_wait"}

C7_WaitersResume ==
  \A t \in Threads :
    (pc[t] \in {"wtr_wait", "bd_wait"} /\ ~should_stop)
      ~> (pc[t] = "idle" \/ should_stop)

\* A thread parked by the episode has been woken by the restart and has not
\* run yet.
C7_Witness ==
  \E t \in Threads :
    /\ pc[t] = "wtr_wait"
    /\ t \notin waiting_to_run
    /\ ~should_stop
    /\ \E s \in Threads \ {t} : waited[s] /\ mode[s] = "dependent"

\* pending_threads less what the other threads contribute now is what it was
\* when t called the operation.
Restored(t) ==
  snap[t] # << >> /\ pending_threads - OthersCounted(t) = snap[t][1]

\* C8: wake_all_waiters clears should_stop and gives back the stopper's
\* share of pending_threads, and a thread parked by the episode gives back
\* its own share when it comes out of wait_to_run.
C8_StopRestartRestores ==
  [][ \A t \in Threads :
        /\ (pc[t] = "waw_body" /\ pc'[t] = "idle") =>
              (~should_stop' /\ Restored(t)')
        /\ (pc[t] = "wtr_inc" /\ pc'[t] # "wtr_inc") => Restored(t)' ]_vars

\* The stopper, having waited, is about to restart a world with a parked
\* thread in it.
C8_Witness ==
  \E s \in Threads : \E u \in Threads \ {s} :
    /\ pc[s] = "waw_body"
    /\ waited[s]
    /\ pc[u] = "wtr_wait"

Fresh ==
  \A t \in Threads :
    pc[t] = "idle" /\ mode[t] = "independent" /\ snap[t] = << >>

\* s is the only thread that has ever been dependent.
Solo(s) ==
  \A u \in Threads \ {s} : mode[u] = "independent" /\ snap[u] = << >>

\* C10 as stated: a freshly constructed WorldState has pending_threads = 1.
C10_Original ==
  Fresh => (pending_threads = 1 /\ ~should_stop)

\* C10: a freshly constructed WorldState has pending_threads = 0 and
\* should_stop = false; with one thread dependent and no other ever counted,
\* pending_threads = 1 outside a stop, wait_til_alone never waits, and the
\* episode has pending_threads = 0 and should_stop = true.
C10_FreshAndSoloStop ==
  /\ Fresh => (pending_threads = 0 /\ ~should_stop)
  /\ \A s \in Threads :
       Solo(s) =>
         /\ (mode[s] = "dependent" /\ pc[s] = "idle") =>
               (pending_threads = 1 /\ ~should_stop)
         /\ pc[s] # "wta_wait" /\ ~waited[s]
         /\ mode[s] = "stopper" => (pending_threads = 0 /\ should_stop)

\* The only thread ever counted has stopped the world and restarted it.
C10_Witness ==
  \E s \in Threads :
    /\ Solo(s)
    /\ mode[s] = "dependent"
    /\ pc[s] = "idle"
    /\ time_waiting > 0
    /\ pending_threads = 1
----------------------------------------------------------------------------
worldside_core == << world, mutex, condvars, pc, mode, caller, ghosts,
                     jit_inline_debug >>

worldside == << worldside_core, registry >>

\* enable_preemption(): if(timer_thread_started_) return;
EnablePreemptionCheck(t) ==
  /\ ~exited
  /\ ep[t] = "idle"
  /\ ep' = [ep EXCEPT ![t] = IF timer_thread_started THEN "idle" ELSE "ep_set"]
  /\ UNCHANGED << worldside, timer_thread_started, timer_threads,
                  enable_preempt, timer_set, exited >>

\* timer_thread_started_ = true;
EnablePreemptionSet(t) ==
  /\ ~exited
  /\ ep[t] = "ep_set"
  /\ timer_thread_started' = TRUE
  /\ ep' = [ep EXCEPT ![t] = "ep_create"]
  /\ UNCHANGED << worldside, timer_threads, enable_preempt, timer_set, exited >>

\* pthread_create(&timer_thread_, NULL, __thread_tramp__, this): a new thread
\* at the start of scheduler_loop(), or "Unable to create timer thread!" and
\* exit(1).
EnablePreemptionCreate(t) ==
  /\ ~exited
  /\ ep[t] = "ep_create"
  /\ \E created \in BOOLEAN :
       IF created
         THEN /\ timer_threads' = Append(timer_threads, "mask")
              /\ ep' = [ep EXCEPT ![t] = "ep_enable"]
              /\ UNCHANGED exited
         ELSE /\ exited' = TRUE
              /\ UNCHANGED << timer_threads, ep >>
  /\ UNCHANGED << worldside, timer_thread_started, enable_preempt, timer_set >>

\* interrupts.enable_preempt = true; enable_preemption() returns.
EnablePreemptionEnable(t) ==
  /\ ~exited
  /\ ep[t] = "ep_enable"
  /\ enable_preempt' = TRUE
  /\ ep' = [ep EXCEPT ![t] = "idle"]
  /\ UNCHANGED << worldside, timer_thread_started, timer_threads, timer_set,
                  exited >>

\* scheduler_loop(): sigfillset; pthread_sigmask(SIG_SETMASK, ...), abort()
\* if it fails.
SchedulerMask(i) ==
  /\ ~exited
  /\ timer_threads[i] = "mask"
  /\ \E masked \in BOOLEAN :
       IF masked
         THEN /\ timer_threads' = [timer_threads EXCEPT ![i] = "sleep"]
              /\ UNCHANGED exited
         ELSE /\ exited' = TRUE
              /\ UNCHANGED timer_threads
  /\ UNCHANGED << worldside, timer_thread_started, enable_preempt, timer_set,
                  ep >>

\* scheduler_loop(): nanosleep(&requested, &actual) is over.
SchedulerSleep(i) ==
  /\ ~exited
  /\ timer_threads[i] = "sleep"
  /\ timer_threads' = [timer_threads EXCEPT ![i] = "poll"]
  /\ UNCHANGED << worldside, timer_thread_started, enable_preempt, timer_set,
                  ep, exited >>

\* scheduler_loop(): if(ints.enable_preempt) ints.set_timer(); and around.
SchedulerPoll(i) ==
  /\ ~exited
  /\ timer_threads[i] = "poll"
  /\ timer_set' = (enable_preempt \/ timer_set)
  /\ timer_threads' = [timer_threads EXCEPT ![i] = "sleep"]
  /\ UNCHANGED << worldside, timer_thread_started, enable_preempt, ep, exited >>

TimerNext ==
  \/ \E t \in Threads :
        \/ EnablePreemptionCheck(t)
        \/ EnablePreemptionSet(t)
        \/ EnablePreemptionCreate(t)
        \/ EnablePreemptionEnable(t)
  \/ \E i \in DOMAIN timer_threads :
        \/ SchedulerMask(i)
        \/ SchedulerSleep(i)
        \/ SchedulerPoll(i)

\* The preemption timer alone: the threads of the runtime call
\* enable_preemption, the timer threads run scheduler_loop.
TimerSpec == Init /\ [][TimerNext]_vars

\* C11: reinit leaves pending_threads = 1, should_stop = false, the mutex
\* free and no waiter on either condition variable, whatever the state was.
C11_ReinitResets ==
  [][ \A t \in Threads :
        Reinit(t) =>
          /\ pending_threads' = 1
          /\ should_stop' = FALSE
          /\ mutex' = NoThread
          /\ waiting_to_stop' = {}
          /\ waiting_to_run' = {} ]_vars

\* The world after a reinit: waiting time on the books, and no thread with
\* an operation behind it.
AfterReinit ==
  /\ time_waiting > 0
  /\ \A t \in Threads : snap[t] = << >> /\ pc[t] = "idle"

\* reinit has run in a world that had stopped before: one thread counted.
C11_Witness ==
  /\ AfterReinit
  /\ pending_threads = 1
  /\ ~should_stop
  /\ mutex = NoThread
  /\ Cardinality({ t \in Threads : mode[t] = "dependent" }) = 1

\* C12 as stated: reinit called with time_waiting > 0 resets it to 0.
C12_Original ==
  [][ \A t \in Threads :
        (Reinit(t) /\ time_waiting > 0) => time_waiting' = 0 ]_vars

\* C12: reinit leaves time_waiting as it was.
C12_ReinitKeepsTimeWaiting ==
  [][ \A t \in Threads : Reinit(t) => time_waiting' = time_waiting ]_vars

\* reinit has run with time_waiting > 0, and time_waiting is still > 0.
C12_Witness ==
  /\ AfterReinit
  /\ jit_inline_debug = "no"
  /\ time_waiting = MaxTimeWaiting

\* C13: time_waiting never goes down, and it changes only in the step in
\* which wait_til_alone returns to the stopper.
C13_TimeWaitingMonotonic ==
  [][ /\ time_waiting' >= time_waiting
      /\ time_waiting' # time_waiting =>
           \E t \in Threads : pc[t] = "wta_loop" /\ mode'[t] = "stopper" ]_vars

\* A stop that waited has been timed.
C13_Witness ==
  /\ time_waiting > 0
  /\ \E s \in Threads : mode[s] = "stopper" /\ waited[s]

\* C14: at most one preemption timer thread is ever created, over any
\* sequence or interleaving of enable_preemption calls.
C14_AtMostOneTimer == Len(timer_threads) <= 1

StaleTrueRead ==
  \E t \in Threads :
    /\ ~should_stop
    /\ \/ pc[t] = "cp_lock"
       \/ pc[t] = "wtr_dec" /\ caller[t] = "checkpoint"

\* No state has a stale true read: a thread between its true read and
\* wait_to_run is counted, so no stopper has come back to clear should_stop.
NoStaleTrueRead == ~StaleTrueRead

----------------------------------------------------------------------------
\* The registry of managed threads (SharedState::new_vm, remove_vm,
\* add_managed_thread, remove_managed_thread) and discard().  The lists are
\* not protected by any lock; the operations are taken one call at a time.

Range(list) == { list[i] : i \in DOMAIN list }

\* VM::call_frame_location(): the address of the slot inside the VM that
\* holds its current call frame; one slot for each VM.
CallFrameLocation(vm) == MaxVMs + MaxOthers + vm

\* std::list::push_back.
PushBack(list, x) == Append(list, x)

\* A removal that drops the oldest entry, whatever it is.
ListRemoveFront(list, x) == IF list = << >> THEN list ELSE Tail(list)

\* std::list::remove: every element equal to x goes, the others keep their
\* order.
ListRemove(list, x) == SelectSeq(list, LAMBDA y : y # x)

\* ref() and deref() of the reference-counted facade; deref() tells whether
\* the count has come to zero.
Ref(n) == n + 1

Deref(n) == n - 1

DerefIsLast(n) == Deref(n) = 0

\* if(!root_vm_) root_vm_ = vm;
RootAfter(root, vm) == IF root = NoVM THEN vm ELSE root

\* The registry as new_vm found it.
RegistryNow(vm) ==
  [ vm |-> vm, threads |-> threads, cf_locations |-> cf_locations,
    refcount |-> refcount, root_vm |-> root_vm, removed |-> FALSE ]

\* new_vm(): new VM(*this) is an object at an address no registered thread
\* has.
NewVm(vm) ==
  /\ ~deleted
  /\ vm \in VMs \ Range(threads)
  /\ cf_locations' = PushBack(cf_locations, CallFrameLocation(vm))
  /\ threads' = PushBack(threads, vm)
  /\ refcount' = Ref(refcount)
  /\ root_vm' = RootAfter(root_vm, vm)
  /\ last_new' = << RegistryNow(vm) >>
  /\ UNCHANGED << deleted, worldside_core, preemption >>

\* remove_vm(vm) of a registered VM: deref()'s answer is not looked at
\* ("Don't delete ourself here").
RemoveVm(vm) ==
  /\ ~deleted
  /\ vm \in VMs \cap Range(threads)
  /\ cf_locations' = ListRemove(cf_locations, CallFrameLocation(vm))
  /\ threads' = ListRemove(threads, vm)
  /\ refcount' = Deref(refcount)
  /\ last_new' = IF last_new # << >> /\ last_new[1].vm = vm
                         /\ ~last_new[1].removed
                   THEN << [last_new[1] EXCEPT !.removed = TRUE] >>
                   ELSE << >>
  /\ UNCHANGED << root_vm, deleted, worldside_core, preemption >>

\* add_managed_thread(thr): threads_.push_back(thr).
AddManagedThread(thr) ==
  /\ ~deleted
  /\ thr \in Others
  /\ Len(threads) < MaxVMs + MaxOthers
  /\ threads' = PushBack(threads, thr)
  /\ last_new' = << >>
  /\ UNCHANGED << cf_locations, refcount, root_vm, deleted, worldside_core,
                  preemption >>

\* remove_managed_thread(thr): threads_.remove(thr).
RemoveManagedThread(thr) ==
  /\ ~deleted
  /\ thr \in Others \cap Range(threads)
  /\ threads' = ListRemove(threads, thr)
  /\ last_new' = << >>
  /\ UNCHANGED << cf_locations, refcount, root_vm, deleted, worldside_core,
                  preemption >>

\* The reference taken by the constructor has not been given back: every
\* other reference is that of a registered VM.
OwnerHoldsRef ==
  refcount > Cardinality({ i \in DOMAIN threads : threads[i] \in VMs })

\* discard(ss): if(ss->deref()) delete ss; by the owner of the constructor's
\* reference.
Discard ==
  /\ ~deleted
  /\ OwnerHoldsRef
  /\ refcount' = Deref(refcount)
  /\ deleted' = DerefIsLast(refcount)
  /\ last_new' = << >>
  /\ UNCHANGED << threads, cf_locations, root_vm, worldside_core, preemption >>

RegistryNext ==
  \/ \E vm \in VMs : NewVm(vm) \/ RemoveVm(vm)
  \/ \E thr \in Others : AddManagedThread(thr) \/ RemoveManagedThread(thr)
  \/ Discard

\* The registry alone: VMs come and go, other managed threads are added and
\* removed, the owner gives up the facade.
RegistrySpec == Init /\ [][RegistryNext]_vars

----------------------------------------------------------------------------
\* C21: after new_vm the thread list and the root-pointer list are the ones
\* before with the new VM and its call-frame location at the end, the
\* reference count is one more, and the VM is root exactly if there was no
\* root; after remove_vm of that VM, with no other registry call between,
\* the thread list, the root-pointer list and the reference count are what
\* they were before new_vm, and the facade is not destroyed.
C21_NewThenRemove ==
  last_new # << >> =>
    LET was == last_new[1] IN
      IF was.removed
        THEN /\ threads = was.threads
             /\ cf_locations = was.cf_locations
             /\ refcount = was.refcount
             /\ ~deleted
        ELSE /\ threads = was.threads \o << was.vm >>
             /\ cf_locations = was.cf_locations \o << CallFrameLocation(was.vm) >>
             /\ refcount = was.refcount + 1
             /\ root_vm = (IF was.root_vm = NoVM THEN was.vm ELSE was.root_vm)
             /\ (root_vm = was.vm) <=> (was.root_vm \in {NoVM, was.vm})

\* A VM was made next to registered threads, one of them a VM of the same
\* kind, and has been removed again.
C21_Witness ==
  /\ last_new # << >>
  /\ last_new[1].removed
  /\ Len(threads) >= 2
  /\ \E i \in DOMAIN threads : threads[i] \in VMs
  /\ root_vm # NoVM

----------------------------------------------------------------------------
\* SharedState::stop_the_world() called by any dependent thread, whether or
\* not another thread is stopping the world: WorldState has no guard
\* against it.
StopTheWorldCall(t) ==
  /\ pc[t] = "idle"
  /\ mode[t] = "dependent"
  /\ pc' = [pc EXCEPT ![t] = "wta_lock"]
  /\ snap' = [snap EXCEPT ![t] = << pending_threads - OthersCounted(t) >>]
  /\ waited' = [waited EXCEPT ![t] = FALSE]
  /\ UNCHANGED << facade, world, mutex, condvars, mode, caller >>

RaceCall(t) ==
  \/ Checkpoint(t)
  \/ BecomeIndependentCall(t)
  \/ BecomeDependentCall(t)
  \/ StopTheWorldCall(t)
  \/ WakeAllWaitersCall(t)

RaceNext ==
  \E t \in Threads :
    \/ RaceCall(t)
    \/ Acquire(t)
    \/ Advance(t)
    \/ SpuriousWakeup(t)

\* The world with stop_the_world open to every dependent thread at any
\* time.
RaceSpec == Init /\ [][RaceNext]_vars

\* Fair scheduling, and a thread that holds a stop episode ends it with
\* restart_world.
RaceFairness ==
  /\ Fairness
  /\ \A t \in Threads : WF_vars(WakeAllWaitersCall(t))

RaceFairSpec == RaceSpec /\ RaceFairness

\* At most one thread has come back from wait_til_alone and not yet called
\* wake_all_waiters.
OneEpisode == Cardinality({ t \in Threads : mode[t] = "stopper" }) <= 1

\* Every thread inside wait_til_alone comes back from it.
EveryStopReturns ==
  \A t \in Threads :
    (pc[t] \in {"wta_lock", "wta_set", "wta_loop", "wta_wait"})
      ~> (mode[t] = "stopper")

\* C22: with stop_the_world called concurrently, at most one thread is
\* inside a stop episode at any time, and under fair scheduling every call
\* of stop_the_world returns.
C22_ConcurrentStoppers == []OneEpisode /\ EveryStopReturns

====
